---- MODULE Spec2Model ----
(***************************************************************************)
(* Request handlers of the business manager over the committed rows of its *)
(* models: the POS sale view (alone and under concurrent requests), the     *)
(* barcode lookup, purchase-order creation and receipt, stock addition and  *)
(* adjustment, product disabling and enabling, the sale admin, user         *)
(* accounts with their EmployeeProfile, expenses, and the role checks in    *)
(* front of the views.                                                      *)
(*                                                                          *)
(* A request is one message in flight: a client submits it, the view        *)
(* handles it in one step, and the client collects the response.  `before`  *)
(* is the committed database as it was when the view started, kept until    *)
(* the response is collected.  Concurrent POS requests are modelled         *)
(* statement by statement in `txn`.                                         *)
(***************************************************************************)
EXTENDS Integers, Sequences, FiniteSets, TLC

VARIABLES
    stock_quantity,   \* Product.stock_quantity, per product row
    price,            \* Product.price, per product row
    sales,            \* Sale rows in id order, each with its SaleItem rows
    last_purchase,    \* Customer.last_purchase, per customer row (0 = NULL)
    po_status,        \* PurchaseOrder.status, per order row
    po_items,         \* PurchaseOrderItem rows of each order
    adjustments,      \* StockAdjustment rows in id order
    is_active,        \* Product.is_active, per product row
    barcode,          \* Product.barcode, per product row (0 = NULL)
    users,            \* auth User rows in id order
    profiles,         \* EmployeeProfile rows in id order
    expense_categories, \* ExpenseCategory rows in id order
    expenses,         \* Expense rows in id order
    txn,              \* concurrent POS requests: each worker's transaction
    row_lock,         \* the worker holding each product row's write lock
    request,          \* the request in flight
    response,         \* the response to it
    before            \* the committed database when the view started

\* the committed rows
rows == <<stock_quantity, price, sales, last_purchase, po_status, po_items,
          adjustments, is_active, barcode, users, profiles,
          expense_categories, expenses>>

vars == <<rows, txn, row_lock, request, response, before>>

----------------------------------------------------------------------------
(* Bounds of the model *)

NumProducts == 2
NumCustomers == 1
NumOrders == 1
MaxStock == 3
MaxPrice == 2
MaxLines == 2
MaxQty == 2
MaxTime == 2
MaxSales == 2
MaxDelta == 2
MaxAdjustments == 2
NumBarcodes == 2
NumUsernames == 2
MaxWrites == 2

Products == 1..NumProducts
\* ids a request can name: the rows, and one id with no row
ProductIds == 1..(NumProducts + 1)
Customers == 1..NumCustomers
NoCustomer == 0
\* customer_id of a request: absent, a row, or an id with no row
CustomerIds == 0..(NumCustomers + 1)
PurchaseOrders == 1..NumOrders
PurchaseOrderIds == 1..(NumOrders + 1)
Times == 1..MaxTime
\* two of the server's workers, each handling one request at a time
Workers == {1, 2}
NoWorker == 0
NoBarcode == 0

STATUS_CHOICES == {"Pending", "Ordered", "Received", "Canceled"}

SeqsUpTo(S, n) == UNION {[1..k -> S] : k \in 0..n}

NoRequest == [view |-> "none"]
NoResponse == [status |-> 0]
NoSnapshot == [taken |-> FALSE]
NoTxn == [pc |-> "idle"]

\* The committed rows the views write.
Database ==
    [stock_quantity |-> stock_quantity, price |-> price, sales |-> sales,
     last_purchase |-> last_purchase, po_status |-> po_status,
     po_items |-> po_items, adjustments |-> adjustments,
     is_active |-> is_active, barcode |-> barcode, users |-> users,
     profiles |-> profiles, expense_categories |-> expense_categories,
     expenses |-> expenses]

Snapshot(db) == [taken |-> TRUE, db |-> db]

NoException == [type |-> "none", message |-> ""]
Raise(type, message) == [type |-> type, message |-> message]

----------------------------------------------------------------------------
(* Model layer: inventory/models.py *)

\* Product.objects.get(id=...): the row as an in-memory object
Product_get(db, id) ==
    [id |-> id, stock_quantity |-> db.stock_quantity[id], price |-> db.price[id]]

\* product.save(): writes the object's fields to its row
Product_save(db, product) ==
    [db EXCEPT !.stock_quantity[product.id] = product.stock_quantity]

\* SaleItem without its unique_together constraint
SaleItem_unique_dropped(db, item) == FALSE

\* unique_together = ('sale', 'product')
SaleItem_unique_violated(db, item) ==
    \E k \in 1..Len(db.sales[item.sale].items) :
        /\ k # item.pk
        /\ db.sales[item.sale].items[k].product = item.product

\* super().save(): INSERT of a new row, UPDATE of an existing one
SaleItem_write(db, item) ==
    LET row == [product |-> item.product, quantity |-> item.quantity,
                unit_price |-> item.unit_price, subtotal |-> item.subtotal]
    IN IF item.pk = 0
       THEN [db EXCEPT !.sales[item.sale].items = Append(@, row)]
       ELSE [db EXCEPT !.sales[item.sale].items[item.pk] = row]

\* subtotal that forgets the quantity
SaleItem_subtotal_unit(quantity, unit_price) == unit_price

\* self.subtotal = self.quantity * self.unit_price
SaleItem_subtotal(quantity, unit_price) == quantity * unit_price

\* a change of stock that forgets the quantity the row already holds
SaleItem_stock_change_whole(db, item) == item.quantity

\* if self.pk: stock_change = self.quantity - original_sale_item.quantity;
\* else the whole quantity
SaleItem_stock_change(db, item) ==
    IF item.pk # 0
    THEN item.quantity - db.sales[item.sale].items[item.pk].quantity
    ELSE item.quantity

\* SaleItem.save(); `product` is the object item.product refers to.
\* Returns the database, the (mutated) product object and the exception.
SaleItem_save(db, item, product) ==
    LET unit_price == IF item.unit_price = 0 THEN product.price ELSE item.unit_price
        subtotal == SaleItem_subtotal(item.quantity, unit_price)
        stock_change == SaleItem_stock_change(db, item)
        product1 == [product EXCEPT !.stock_quantity = @ - stock_change]
        db1 == Product_save(db, product1)
        item1 == [item EXCEPT !.unit_price = unit_price, !.subtotal = subtotal]
    IN IF SaleItem_unique_violated(db1, item1)
       THEN [db |-> db1, product |-> product1,
             exc |-> Raise("IntegrityError", "unique_together")]
       ELSE [db |-> SaleItem_write(db1, item1), product |-> product1,
             exc |-> NoException]

\* Sale.objects.create(user=..., customer=customer, total_amount=0)
Sale_create(db, customer) ==
    [db EXCEPT !.sales = Append(@, [customer |-> customer, total_amount |-> 0,
                                    items |-> <<>>])]

----------------------------------------------------------------------------
(* transaction.atomic(): the block's writes are committed if it ends        *)
(* without an exception and are all undone if an exception leaves it.       *)

\* a block that is not atomic: the writes made before the exception stay
transaction_not_atomic(db, result) == result.db

transaction_atomic(db, result) ==
    IF result.exc.type = "none" THEN result.db ELSE db

----------------------------------------------------------------------------
(* Role checks and the view decorators: inventory/views.py *)

\* request.user: AnonymousUser, or an account with or without an
\* EmployeeProfile (role "" = no profile)
AnonymousUser ==
    [is_authenticated |-> FALSE, has_profile |-> FALSE, role |-> "",
     is_superuser |-> FALSE]

RequestUsers ==
    {AnonymousUser}
    \cup [is_authenticated : {TRUE}, has_profile : {FALSE}, role : {""},
          is_superuser : BOOLEAN]
    \cup [is_authenticated : {TRUE}, has_profile : {TRUE},
          role : {"Owner", "Cashier", "Stock Manager"}, is_superuser : BOOLEAN]

\* an account with a profile of the given role
Employee(role) ==
    [is_authenticated |-> TRUE, has_profile |-> TRUE, role |-> role,
     is_superuser |-> FALSE]

is_owner(user) ==
    user.is_authenticated /\ user.has_profile /\ user.role = "Owner"

\* user.employeeprofile raises EmployeeProfile.DoesNotExist without a
\* profile, before is_superuser is looked at
is_cashier(user) ==
    IF user.is_authenticated
    THEN IF user.has_profile
         THEN user.role = "Cashier" \/ user.role = "Owner" \/ user.is_superuser
         ELSE FALSE
    ELSE FALSE

is_stock_manager(user) ==
    /\ user.is_authenticated
    /\ user.has_profile
    /\ (user.role = "Stock Manager" \/ user.role = "Owner" \/ user.is_superuser)

\* lambda u: is_owner(u) or is_stock_manager(u)
is_owner_or_stock_manager(user) == is_owner(user) \/ is_stock_manager(user)

\* @login_required
login_required(user) == user.is_authenticated

\* a decorator that lets every request through
user_passes_test_skipped(passes) == TRUE

\* @user_passes_test(test_func, login_url='/accounts/login/'): the view runs
\* if test_func(request.user) holds
user_passes_test(passes) == passes

\* the redirect of both decorators to the login page
LoginRedirect ==
    [status |-> 302, result |-> "login", message |-> "", sale_id |-> 0]

\* a check of the method that lets every method through
method_is_POST_skipped(method) == TRUE

\* if request.method == 'POST':
method_is_POST(method) == method = "POST"

----------------------------------------------------------------------------
(* pos_view: inventory/views.py *)

\* The view's own decrement after SaleItem.objects.create: on the same
\* product object that SaleItem.save has already decremented and saved.
pos_decrement(db, product, quantity) ==
    Product_save(db, [product EXCEPT !.stock_quantity = @ - quantity])

\* a stock check that compares with <= 0 instead of the quantity asked for
insufficient_stock_empty(product, quantity) == product.stock_quantity <= 0

\* if product.stock_quantity < quantity: raise ValueError(...)
insufficient_stock(product, quantity) == product.stock_quantity < quantity

\* for item_data_str in sale_items_data: ...
RECURSIVE pos_items_loop(_, _, _, _)
pos_items_loop(db, sale, lines, total_sale_amount) ==
    IF lines = <<>>
    THEN [db |-> db, exc |-> NoException, total |-> total_sale_amount]
    ELSE
      LET line == Head(lines)
          quantity == line.quantity
      IN IF line.product_id \notin Products
         THEN [db |-> db, exc |-> Raise("Product.DoesNotExist", ""),
               total |-> total_sale_amount]
         ELSE
           LET product == Product_get(db, line.product_id)
           IN IF quantity <= 0
              THEN [db |-> db, exc |-> Raise("ValueError", "Quantity must be positive."),
                    total |-> total_sale_amount]
              ELSE IF insufficient_stock(product, quantity)
              THEN [db |-> db, exc |-> Raise("ValueError", "Not enough stock"),
                    total |-> total_sale_amount]
              ELSE
                LET created == SaleItem_save(db,
                                   [sale |-> sale, pk |-> 0, product |-> product.id,
                                    quantity |-> quantity, unit_price |-> product.price,
                                    subtotal |-> quantity * product.price],
                                   product)
                IN IF created.exc.type # "none"
                   THEN [db |-> created.db, exc |-> created.exc,
                         total |-> total_sale_amount]
                   ELSE pos_items_loop(
                            pos_decrement(created.db, created.product, quantity),
                            sale, Tail(lines),
                            total_sale_amount + quantity * product.price)

\* a sale that leaves the customer's last_purchase alone
last_purchase_kept(db, customer_id, now) == db

\* if customer: customer.last_purchase = timezone.now(); customer.save()
last_purchase_update(db, customer_id, now) ==
    IF customer_id # NoCustomer
    THEN [db EXCEPT !.last_purchase[customer_id] = now]
    ELSE db

\* The body of `with transaction.atomic():` in pos_view.
pos_transaction(db, req) ==
    IF req.customer_id # NoCustomer /\ req.customer_id \notin Customers
    THEN [db |-> db, exc |-> Raise("Http404", ""), sale_id |-> 0]
    ELSE
      LET db1 == Sale_create(db, req.customer_id)
          sale == Len(db1.sales)
          loop == pos_items_loop(db1, sale, req.items, 0)
          db2 == [loop.db EXCEPT !.sales[sale].total_amount = loop.total]
          db3 == last_purchase_update(db2, req.customer_id, req.now)
      IN IF loop.exc.type # "none"
         THEN [db |-> loop.db, exc |-> loop.exc, sale_id |-> 0]
         ELSE [db |-> db3, exc |-> NoException, sale_id |-> sale]

\* The JsonResponse of each exit of pos_view.
pos_response(result) ==
    CASE result.exc.type = "none" ->
            [status |-> 200, result |-> "success",
             message |-> "Sale recorded successfully!", sale_id |-> result.sale_id]
      [] result.exc.type = "Product.DoesNotExist" ->
            [status |-> 400, result |-> "error",
             message |-> "One or more products not found.", sale_id |-> 0]
      [] result.exc.type = "ValueError" ->
            [status |-> 400, result |-> "error",
             message |-> result.exc.message, sale_id |-> 0]
      [] OTHER ->
            [status |-> 500, result |-> "error",
             message |-> "An error occurred while processing the sale.", sale_id |-> 0]

Commit(db) ==
    /\ stock_quantity' = db.stock_quantity
    /\ sales' = db.sales
    /\ last_purchase' = db.last_purchase
    /\ po_status' = db.po_status
    /\ po_items' = db.po_items
    /\ adjustments' = db.adjustments
    /\ is_active' = db.is_active
    /\ users' = db.users
    /\ profiles' = db.profiles
    /\ expense_categories' = db.expense_categories
    /\ expenses' = db.expenses
    /\ UNCHANGED <<price, barcode, txn, row_lock>>

pos_view ==
    /\ request.view = "pos"
    /\ response = NoResponse
    /\ before' = Snapshot(Database)
    /\ UNCHANGED request
    /\ IF ~(login_required(request.user)
            /\ user_passes_test(is_cashier(request.user)))
       THEN /\ Commit(Database)
            /\ response' = LoginRedirect
       ELSE IF method_is_POST(request.method)
       THEN LET result == pos_transaction(Database, request)
            IN /\ Commit(transaction_atomic(Database, result))
               /\ response' = pos_response(result)
       ELSE /\ Commit(Database)
            /\ response' = [status |-> 200, result |-> "page",
                            message |-> "", sale_id |-> 0]

----------------------------------------------------------------------------
(* receive_purchase_order: inventory/views.py *)

\* receipt without the already-received check
already_received_unchecked(status) == FALSE

\* if purchase_order.status == 'Received': ... return redirect(...)
already_received(status) == status = "Received"

\* receipt that sets the stock to the ordered quantity
receive_overwrite(stock, quantity) == quantity

\* product.stock_quantity += item.quantity
receive_increment(stock, quantity) == stock + quantity

\* for item in purchase_order.purchaseorderitem_set.all(): ...
\* `saves` counts the save() calls made so far in the request; the call
\* numbered `fault` raises (0: none does).
RECURSIVE receive_items_loop(_, _, _, _)
receive_items_loop(db, items, saves, fault) ==
    IF items = <<>>
    THEN [db |-> db, exc |-> NoException, saves |-> saves]
    ELSE
      LET item == Head(items)
          product == Product_get(db, item.product)
          product1 == [product EXCEPT
                          !.stock_quantity = receive_increment(@, item.quantity)]
      IN IF fault = saves + 1
         THEN [db |-> db, exc |-> Raise("DatabaseError", "product.save"),
               saves |-> saves + 1]
         ELSE receive_items_loop(Product_save(db, product1), Tail(items),
                                 saves + 1, fault)

\* The body of `with transaction.atomic():` in receive_purchase_order.
receive_transaction(db, pk, fault) ==
    LET loop == receive_items_loop(db, db.po_items[pk], 0, fault)
    IN IF loop.exc.type # "none"
       THEN [db |-> loop.db, exc |-> loop.exc]
       ELSE IF fault = loop.saves + 1
       THEN [db |-> loop.db, exc |-> Raise("DatabaseError", "purchase_order.save")]
       ELSE [db |-> [loop.db EXCEPT !.po_status[pk] = "Received"],
             exc |-> NoException]

Redirect(message) ==
    [status |-> 302, result |-> "redirect", message |-> message, sale_id |-> 0]

receive_purchase_order ==
    /\ request.view = "receive"
    /\ response = NoResponse
    /\ before' = Snapshot(Database)
    /\ UNCHANGED request
    /\ IF ~(login_required(request.user)
            /\ user_passes_test(is_owner_or_stock_manager(request.user)))
       THEN /\ Commit(Database)
            /\ response' = LoginRedirect
       ELSE IF ~method_is_POST(request.method)
       THEN /\ Commit(Database)
            /\ response' = Redirect("")
       ELSE IF request.pk \notin DOMAIN po_status
       THEN /\ Commit(Database)
            /\ response' = [status |-> 404, result |-> "error",
                            message |-> "Not Found", sale_id |-> 0]
       ELSE IF already_received(po_status[request.pk])
       THEN /\ Commit(Database)
            /\ response' = Redirect("has already been received")
       ELSE LET result == receive_transaction(Database, request.pk, request.fault)
            IN /\ Commit(transaction_atomic(Database, result))
               /\ response' = IF result.exc.type = "none"
                              THEN Redirect("successfully received and stock updated")
                              ELSE Redirect("Error receiving Purchase Order")

----------------------------------------------------------------------------
(* create_stock_adjustment_view: inventory/views.py *)

\* StockAdjustmentForm.is_valid(): product must be a Product row;
\* quantity_change is any integer.
StockAdjustmentForm_is_valid(req) == req.product \in Products

\* adjustment with a floor at zero
adjustment_apply_floored(stock, quantity_change) ==
    IF stock + quantity_change < 0 THEN 0 ELSE stock + quantity_change

\* product.stock_quantity += adjustment.quantity_change
adjustment_apply(stock, quantity_change) == stock + quantity_change

\* `with transaction.atomic(): ... adjustment.save()`: the only statement
\* inside the block.  fault = 1: adjustment.save() raises.
adjustment_transaction(db, req) ==
    IF req.fault = 1
    THEN [db |-> db, exc |-> Raise("DatabaseError", "adjustment.save")]
    ELSE [db |-> [db EXCEPT !.adjustments =
                      Append(@, [product |-> req.product,
                                 quantity_change |-> req.quantity_change])],
          exc |-> NoException]

\* The three statements after the block.  fault = 2: product.save() raises.
adjustment_update_product(db, req) ==
    LET product == Product_get(db, req.product)
        product1 == [product EXCEPT
                        !.stock_quantity = adjustment_apply(@, req.quantity_change)]
    IN IF req.fault = 2
       THEN [db |-> db, exc |-> Raise("DatabaseError", "product.save")]
       ELSE [db |-> Product_save(db, product1), exc |-> NoException]

ServerError ==
    [status |-> 500, result |-> "error", message |-> "Server Error", sale_id |-> 0]

Page(message) ==
    [status |-> 200, result |-> "page", message |-> message, sale_id |-> 0]

create_stock_adjustment_view ==
    /\ request.view = "adjust"
    /\ response = NoResponse
    /\ before' = Snapshot(Database)
    /\ UNCHANGED request
    /\ IF ~(login_required(request.user)
            /\ user_passes_test(is_owner_or_stock_manager(request.user)))
       THEN /\ Commit(Database)
            /\ response' = LoginRedirect
       ELSE IF ~method_is_POST(request.method)
       THEN /\ Commit(Database)
            /\ response' = Page("")
       ELSE IF ~StockAdjustmentForm_is_valid(request)
       THEN /\ Commit(Database)
            /\ response' = Page("Please correct the errors below.")
       ELSE LET saved == adjustment_transaction(Database, request)
                db1 == transaction_atomic(Database, saved)
                updated == adjustment_update_product(db1, request)
            IN IF saved.exc.type # "none"
               THEN /\ Commit(db1)
                    /\ response' = ServerError
               ELSE \* each statement outside the block commits on its own
                    /\ Commit(updated.db)
                    /\ response' = IF updated.exc.type # "none"
                                   THEN ServerError
                                   ELSE Redirect("recorded successfully!")

----------------------------------------------------------------------------
(* The client *)

SaleLines == SeqsUpTo([product_id : ProductIds, quantity : 0..MaxQty], MaxLines)

\* The requests of these sets come from users the views admit.
PosRequests ==
    [view : {"pos"}, user : {Employee("Cashier")}, method : {"POST"},
     customer_id : CustomerIds, items : SaleLines, now : Times]
    \cup [view : {"pos"}, user : {Employee("Cashier")}, method : {"GET"},
          customer_id : {NoCustomer}, items : {<<>>}, now : {1}]

SubmitPos ==
    /\ request = NoRequest
    /\ Len(sales) < MaxSales
    /\ \E req \in PosRequests : request' = req
    /\ UNCHANGED <<rows, txn, row_lock, response, before>>

ReceiveRequests ==
    [view : {"receive"}, user : {Employee("Stock Manager")}, method : {"POST"},
     pk : PurchaseOrderIds, fault : 0..(NumProducts + 1)]
    \cup [view : {"receive"}, user : {Employee("Stock Manager")},
          method : {"GET"}, pk : PurchaseOrderIds, fault : {0}]

SubmitReceive ==
    /\ request = NoRequest
    /\ \E req \in ReceiveRequests : request' = req
    /\ UNCHANGED <<rows, txn, row_lock, response, before>>

AdjustmentRequests ==
    [view : {"adjust"}, user : {Employee("Stock Manager")}, method : {"POST"},
     product : ProductIds, quantity_change : (-MaxDelta)..MaxDelta,
     fault : 0..2]
    \cup [view : {"adjust"}, user : {Employee("Stock Manager")},
          method : {"GET"}, product : {1}, quantity_change : {0}, fault : {0}]

SubmitAdjustment ==
    /\ request = NoRequest
    /\ Len(adjustments) < MaxAdjustments
    /\ \E req \in AdjustmentRequests : request' = req
    /\ UNCHANGED <<rows, txn, row_lock, response, before>>

\* The client has read the response; the next request can be made.
Collect ==
    /\ response # NoResponse
    /\ request' = NoRequest
    /\ response' = NoResponse
    /\ before' = NoSnapshot
    /\ UNCHANGED <<rows, txn, row_lock>>

----------------------------------------------------------------------------

\* Price lists: every product takes every price in one of them, and
\* neighbouring products differ in price.
PriceList(k) == [p \in Products |-> 1 + ((p + k) % MaxPrice)]

PriceLists == {PriceList(k) : k \in 1..MaxPrice}

\* The lines of a purchase order: at most one per product
\* (unique_together), in id order.
PoItemLists ==
    {s \in SeqsUpTo([product : Products, quantity : 1..MaxQty], NumProducts) :
        \A i, j \in 1..Len(s) : i < j => s[i].product < s[j].product}

\* Nothing has been sold or adjusted yet, no request is in flight.
InitRows ==
    /\ sales = <<>>
    /\ last_purchase = [c \in Customers |-> 0]
    /\ adjustments = <<>>
    /\ users = <<>>
    /\ profiles = <<>>
    /\ expense_categories = <<>>
    /\ expenses = <<>>
    /\ txn = [w \in Workers |-> NoTxn]
    /\ row_lock = [p \in Products |-> NoWorker]
    /\ request = NoRequest
    /\ response = NoResponse
    /\ before = NoSnapshot

\* Every product is active and none has a barcode.
InitPlainProducts ==
    /\ is_active = [p \in Products |-> TRUE]
    /\ barcode = [p \in Products |-> NoBarcode]

\* No purchase order is open.
InitNoOrders ==
    /\ po_status = [o \in PurchaseOrders |-> "Received"]
    /\ po_items = [o \in PurchaseOrders |-> <<>>]

\* The POS: products with any stock from 0 to MaxStock and any price list.
InitPos ==
    /\ InitRows
    /\ InitPlainProducts
    /\ InitNoOrders
    /\ stock_quantity \in [Products -> 0..MaxStock]
    /\ price \in PriceLists

\* Receipt: purchase orders in any status with any lines; the products are
\* all out of stock or all at MaxStock.
InitReceive ==
    /\ InitRows
    /\ InitPlainProducts
    /\ stock_quantity \in {[p \in Products |-> n] : n \in {0, MaxStock}}
    /\ price = PriceList(1)
    /\ po_status \in [PurchaseOrders -> STATUS_CHOICES]
    /\ po_items \in [PurchaseOrders -> PoItemLists]

\* Adjustment: the products are all out of stock or all at MaxStock.
InitAdjust ==
    /\ InitRows
    /\ InitPlainProducts
    /\ InitNoOrders
    /\ stock_quantity \in {[p \in Products |-> n] : n \in {0, MaxStock}}
    /\ price = PriceList(1)

NextPos == SubmitPos \/ pos_view \/ Collect

SpecPos == InitPos /\ [][NextPos]_vars

\* Purchase-order receipt alone.
NextReceive == SubmitReceive \/ receive_purchase_order \/ Collect

SpecReceive == InitReceive /\ [][NextReceive]_vars

\* Stock adjustment alone.
NextAdjust == SubmitAdjustment \/ create_stock_adjustment_view \/ Collect

SpecAdjust == InitAdjust /\ [][NextAdjust]_vars

----------------------------------------------------------------------------
(* get_product_by_barcode: inventory/views.py *)

\* Product.name of a row
Product_name(p) == <<"Product", p>>

\* str(product.price)
str(n) == <<"str", n>>

\* a lookup that does not ask for an active product
Product_by_barcode_inactive(db, code) ==
    {p \in Products : db.barcode[p] = code /\ db.stock_quantity[p] > 0}

\* Product.objects.get(barcode=barcode, is_active=True, stock_quantity__gt=0):
\* the rows the query matches
Product_by_barcode(db, code) ==
    {p \in Products :
        db.barcode[p] = code /\ db.is_active[p] /\ db.stock_quantity[p] > 0}

\* The JsonResponse of each exit of get_product_by_barcode.
barcode_response(db, req) ==
    IF req.method # "GET"
    THEN [status |-> 405, result |-> "error",
          message |-> "Invalid request method."]
    ELSE IF req.barcode = NoBarcode
    THEN [status |-> 400, result |-> "error",
          message |-> "Barcode not provided."]
    ELSE
      LET found == Product_by_barcode(db, req.barcode)
      IN IF found = {}
         THEN [status |-> 404, result |-> "error",
               message |-> "Product not found or out of stock."]
         ELSE IF Cardinality(found) > 1
         THEN [status |-> 500, result |-> "error",
               message |-> "An error occurred."]
         ELSE LET p == CHOOSE q \in found : TRUE
              IN [status |-> 200, result |-> "success", message |-> "",
                  product |-> [id |-> p, name |-> Product_name(p),
                               price |-> str(db.price[p]),
                               stock_quantity |-> db.stock_quantity[p],
                               barcode |-> db.barcode[p]]]

get_product_by_barcode ==
    /\ request.view = "barcode"
    /\ response = NoResponse
    /\ before' = Snapshot(Database)
    /\ UNCHANGED request
    /\ Commit(Database)
    /\ response' = IF login_required(request.user)
                      /\ user_passes_test(is_cashier(request.user))
                   THEN barcode_response(Database, request)
                   ELSE LoginRedirect

\* barcode = 0 is a request without the parameter (or with an empty one)
BarcodeRequests ==
    [view : {"barcode"}, user : {Employee("Cashier")},
     method : {"GET", "POST"}, barcode : 0..(NumBarcodes + 1)]

SubmitBarcode ==
    /\ request = NoRequest
    /\ \E req \in BarcodeRequests : request' = req
    /\ UNCHANGED <<rows, txn, row_lock, response, before>>

\* Barcode lookup: products in or out of stock, active or not, with or
\* without a barcode; no two products share a barcode (unique=True).
InitBarcode ==
    /\ InitRows
    /\ InitNoOrders
    /\ stock_quantity \in [Products -> 0..MaxStock]
    /\ price = PriceList(1)
    /\ is_active \in [Products -> BOOLEAN]
    /\ barcode \in {b \in [Products -> 0..NumBarcodes] :
                      \A p, q \in Products :
                          p # q /\ b[p] # NoBarcode => b[p] # b[q]}

NextBarcode == SubmitBarcode \/ get_product_by_barcode \/ Collect

SpecBarcode == InitBarcode /\ [][NextBarcode]_vars

----------------------------------------------------------------------------
(* User accounts and EmployeeProfile: accounts/models.py, accounts/admin.py, *)
(* accounts/views.py                                                        *)

ROLE_CHOICES == {"Owner", "Cashier", "Stock Manager"}

\* the usernames a form can carry
Usernames == 1..NumUsernames

\* the profile rows of a user
EmployeeProfile_of(db, user) ==
    {i \in 1..Len(db.profiles) : db.profiles[i].user = user}

\* EmployeeProfile(...).save() of a new row: user is a OneToOneField, so a
\* second row for the same user violates its unique constraint.
EmployeeProfile_insert(db, user, role) ==
    IF EmployeeProfile_of(db, user) # {}
    THEN [db |-> db, exc |-> Raise("IntegrityError", "user_id")]
    ELSE [db |-> [db EXCEPT !.profiles =
                     Append(@, [user |-> user, role |-> role])],
          exc |-> NoException]

\* profile.role = role; profile.save() of the user's existing row
EmployeeProfile_update(db, user, role) ==
    [db EXCEPT !.profiles =
        [i \in 1..Len(@) |->
            IF @[i].user = user THEN [@[i] EXCEPT !.role = role] ELSE @[i]]]

\* a receiver that makes no profile for a new account
create_or_update_user_profile_missing(db, user, created) ==
    [db |-> db, exc |-> NoException]

\* @receiver(post_save, sender=User)
create_or_update_user_profile(db, user, created) ==
    IF created
    THEN EmployeeProfile_insert(db, user, "Cashier")
    ELSE IF EmployeeProfile_of(db, user) = {}
    THEN EmployeeProfile_insert(db, user, "Cashier")
    ELSE [db |-> db, exc |-> NoException]

\* User(...).save() of a new account, with its post_save receiver
User_create(db, username) ==
    LET db1 == [db EXCEPT !.users = Append(@, [username |-> username])]
        user == Len(db1.users)
        sent == create_or_update_user_profile(db1, user, TRUE)
    IN [db |-> sent.db, exc |-> sent.exc, user |-> user]

\* user.save() of an existing account, with its post_save receiver
User_save(db, user) ==
    create_or_update_user_profile(db, user, FALSE)

\* UserCreationForm.is_valid(): the username is not taken
username_taken(db, username) ==
    \E u \in 1..Len(db.users) : db.users[u].username = username

\* The body of `with transaction.atomic():` in create_user.
create_user_transaction(db, req) ==
    LET saved == User_create(db, req.username)
    IN IF saved.exc.type # "none"
       THEN [db |-> saved.db, exc |-> saved.exc]
       ELSE EmployeeProfile_insert(saved.db, saved.user, req.role)

create_user ==
    /\ request.view = "create_user"
    /\ response = NoResponse
    /\ before' = Snapshot(Database)
    /\ UNCHANGED request
    /\ IF ~(login_required(request.user)
            /\ user_passes_test(is_owner(request.user)))
       THEN /\ Commit(Database)
            /\ response' = LoginRedirect
       ELSE IF ~method_is_POST(request.method)
       THEN /\ Commit(Database)
            /\ response' = Page("")
       ELSE IF username_taken(Database, request.username)
       THEN /\ Commit(Database)
            /\ response' = Page("Please correct the errors below.")
       ELSE LET result == create_user_transaction(Database, request)
            IN /\ Commit(transaction_atomic(Database, result))
               /\ response' = IF result.exc.type # "none"
                              THEN Page("An error occurred")
                              ELSE Redirect("created successfully!")

\* The admin's add-user page: the account is saved, then the profile inline
\* if the form filled it in (role # ""); the page runs in one transaction.
UserAdmin_add_transaction(db, req) ==
    LET saved == User_create(db, req.username)
    IN IF saved.exc.type # "none"
       THEN [db |-> saved.db, exc |-> saved.exc]
       ELSE IF req.role = ""
       THEN [db |-> saved.db, exc |-> NoException]
       ELSE EmployeeProfile_insert(saved.db, saved.user, req.role)

UserAdmin_add ==
    /\ request.view = "admin_user_add"
    /\ response = NoResponse
    /\ before' = Snapshot(Database)
    /\ UNCHANGED request
    /\ IF username_taken(Database, request.username)
       THEN /\ Commit(Database)
            /\ response' = Page("Please correct the errors below.")
       ELSE LET result == UserAdmin_add_transaction(Database, request)
            IN /\ Commit(transaction_atomic(Database, result))
               /\ response' = IF result.exc.type # "none"
                              THEN ServerError
                              ELSE Redirect("was added successfully")

\* The admin's change-user page: the account is saved, then the profile
\* inline if the form changed it (role # "").
UserAdmin_change_transaction(db, req) ==
    LET saved == User_save(db, req.user)
    IN IF saved.exc.type # "none"
       THEN saved
       ELSE IF req.role = ""
       THEN saved
       ELSE [db |-> EmployeeProfile_update(saved.db, req.user, req.role),
             exc |-> NoException]

UserAdmin_change ==
    /\ request.view = "admin_user_change"
    /\ response = NoResponse
    /\ before' = Snapshot(Database)
    /\ UNCHANGED request
    /\ IF request.user \notin 1..Len(users)
       THEN /\ Commit(Database)
            /\ response' = Redirect("doesn't exist")
       ELSE LET result == UserAdmin_change_transaction(Database, request)
            IN /\ Commit(transaction_atomic(Database, result))
               /\ response' = IF result.exc.type # "none"
                              THEN ServerError
                              ELSE Redirect("was changed successfully")

AccountRequests ==
    [view : {"create_user"}, user : {Employee("Owner")}, method : {"POST"},
     username : Usernames, role : ROLE_CHOICES]
    \cup {[view |-> "create_user", user |-> Employee("Owner"),
           method |-> "GET", username |-> 1, role |-> "Cashier"]}
    \cup [view : {"admin_user_add"}, username : Usernames,
          role : ROLE_CHOICES \cup {""}]
    \cup [view : {"admin_user_change"}, user : 1..(NumUsernames + 1),
          role : ROLE_CHOICES \cup {""}]

SubmitAccount ==
    /\ request = NoRequest
    /\ \E req \in AccountRequests : request' = req
    /\ UNCHANGED <<rows, txn, row_lock, response, before>>

\* Accounts: no user account exists yet.
InitAccounts ==
    /\ InitRows
    /\ InitPlainProducts
    /\ InitNoOrders
    /\ stock_quantity = [p \in Products |-> 0]
    /\ price = PriceList(1)

NextAccounts ==
    SubmitAccount \/ create_user \/ UserAdmin_add \/ UserAdmin_change \/ Collect

SpecAccounts == InitAccounts /\ [][NextAccounts]_vars

----------------------------------------------------------------------------
(* SaleItem.delete, Sale.calculate_total_amount: inventory/models.py;       *)
(* SaleAdmin: inventory/admin.py                                            *)

RemoveAt(s, k) == SubSeq(s, 1, k - 1) \o SubSeq(s, k + 1, Len(s))

\* SaleItem.delete(): the product gets the quantity back, the row goes
SaleItem_delete(db, sale, pk) ==
    LET item == db.sales[sale].items[pk]
        product == Product_get(db, item.product)
        product1 == [product EXCEPT !.stock_quantity = @ + item.quantity]
        db1 == Product_save(db, product1)
    IN [db1 EXCEPT !.sales[sale].items = RemoveAt(@, pk)]

\* sum(item.subtotal for item in self.saleitem_set.all())
RECURSIVE sum_subtotals(_)
sum_subtotals(items) ==
    IF items = <<>> THEN 0
    ELSE Head(items).subtotal + sum_subtotals(Tail(items))

\* a total that is not recomputed
Sale_calculate_total_amount_stale(db, sale) == db

\* Sale.calculate_total_amount()
Sale_calculate_total_amount(db, sale) ==
    [db EXCEPT !.sales[sale].total_amount = sum_subtotals(db.sales[sale].items)]

\* The first loop of SaleAdmin.save_formset: the view adjusts the stock of
\* each new or changed item and saves the product, then instance.save()
\* runs SaleItem.save on the same product object.
RECURSIVE save_formset_instances(_, _, _)
save_formset_instances(db, sale, instances) ==
    IF instances = <<>>
    THEN [db |-> db, exc |-> NoException]
    ELSE
      LET instance == Head(instances)
          product_id == IF instance.pk # 0
                        THEN db.sales[sale].items[instance.pk].product
                        ELSE instance.product
          product == Product_get(db, product_id)
          stock_change ==
              IF instance.pk # 0
              THEN instance.quantity - db.sales[sale].items[instance.pk].quantity
              ELSE instance.quantity
          product1 == [product EXCEPT !.stock_quantity = @ - stock_change]
          db1 == Product_save(db, product1)
          saved == SaleItem_save(db1,
                       [sale |-> sale, pk |-> instance.pk, product |-> product_id,
                        quantity |-> instance.quantity,
                        unit_price |-> IF instance.pk # 0
                                       THEN db.sales[sale].items[instance.pk].unit_price
                                       ELSE 0,
                        subtotal |-> 0],
                       product1)
      IN IF saved.exc.type # "none"
         THEN [db |-> saved.db, exc |-> saved.exc]
         ELSE save_formset_instances(saved.db, sale, Tail(instances))

\* SaleAdmin.save_formset
SaleAdmin_save_formset(db, sale, req) ==
    LET saved == save_formset_instances(db, sale, req.instances)
    IN IF saved.exc.type # "none"
       THEN saved
       ELSE LET db1 == IF req.deleted = 0 THEN saved.db
                       ELSE SaleItem_delete(saved.db, sale, req.deleted)
            IN [db |-> Sale_calculate_total_amount(db1, sale),
                exc |-> NoException]

\* SaleAdmin.save_model, then save_formset, in the change page's transaction
SaleAdmin_transaction(db, req) ==
    SaleAdmin_save_formset(Sale_calculate_total_amount(db, req.sale),
                           req.sale, req)

\* The inline formset is valid: a changed or deleted item is one of the
\* sale's, a new item names a product the sale does not have yet.
SaleItemInline_is_valid(db, req) ==
    LET items == db.sales[req.sale].items
    IN /\ req.deleted \in 0..Len(items)
       /\ \A i \in 1..Len(req.instances) :
             LET instance == req.instances[i]
             IN /\ instance.pk \in 0..Len(items)
                /\ instance.pk # 0 => instance.pk # req.deleted
                /\ instance.pk = 0 =>
                      /\ instance.product \in Products
                      /\ \A k \in 1..Len(items) :
                            k # req.deleted =>
                                items[k].product # instance.product

SaleAdmin_change ==
    /\ request.view = "admin_sale"
    /\ response = NoResponse
    /\ before' = Snapshot(Database)
    /\ UNCHANGED request
    /\ IF request.sale \notin 1..Len(sales)
       THEN /\ Commit(Database)
            /\ response' = Redirect("doesn't exist")
       ELSE IF ~SaleItemInline_is_valid(Database, request)
       THEN /\ Commit(Database)
            /\ response' = Page("Please correct the errors below.")
       ELSE LET result == SaleAdmin_transaction(Database, request)
            IN /\ Commit(transaction_atomic(Database, result))
               /\ response' = IF result.exc.type # "none"
                              THEN ServerError
                              ELSE Redirect("was changed successfully")

\* The change page of a sale, posted with at most one new or changed item
\* (pk = 0: new) and at most one item marked for deletion (0: none).
SaleAdminRequests ==
    [view : {"admin_sale"}, sale : 1..MaxSales,
     instances : SeqsUpTo([pk : {0}, product : ProductIds, quantity : 0..MaxQty]
                          \cup [pk : 1..MaxLines, product : {0},
                                quantity : 0..MaxQty], 1),
     deleted : 0..MaxLines]

\* The admin is used while no product's stock has gone negative.
SubmitSaleAdmin ==
    /\ request = NoRequest
    /\ \A p \in Products : stock_quantity[p] >= 0
    /\ \E req \in SaleAdminRequests : request' = req
    /\ UNCHANGED <<rows, txn, row_lock, response, before>>

\* The change page posted with an item marked for deletion and nothing else.
SaleItemDeleteRequests ==
    {req \in SaleAdminRequests : req.instances = <<>> /\ req.deleted # 0}

SubmitSaleItemDelete ==
    /\ request = NoRequest
    /\ \E req \in SaleItemDeleteRequests : request' = req
    /\ UNCHANGED <<rows, txn, row_lock, response, before>>

\* Sales and their admin: every product starts at MaxStock.
InitSaleAdmin ==
    /\ InitRows
    /\ InitPlainProducts
    /\ InitNoOrders
    /\ stock_quantity = [p \in Products |-> MaxStock]
    /\ price = PriceList(1)

\* A first POS sale of one line, without a customer.
PosLineRequests ==
    {req \in PosRequests :
        /\ req.method = "POST"
        /\ req.customer_id = NoCustomer
        /\ req.now = 1
        /\ Len(req.items) = 1}

SubmitPosLine ==
    /\ request = NoRequest
    /\ sales = <<>>
    /\ \E req \in PosLineRequests : request' = req
    /\ UNCHANGED <<rows, txn, row_lock, response, before>>

\* A POS sale and the sale admin's item changes.
NextSaleAdmin ==
    SubmitPosLine \/ pos_view \/ SubmitSaleAdmin \/ SaleAdmin_change \/ Collect

SpecSaleAdmin == InitSaleAdmin /\ [][NextSaleAdmin]_vars

\* POS sales and deletions of their items.
NextSaleItemDelete ==
    SubmitPos \/ pos_view \/ SubmitSaleItemDelete \/ SaleAdmin_change \/ Collect

SpecSaleItemDelete == InitSaleAdmin /\ [][NextSaleItemDelete]_vars

----------------------------------------------------------------------------
(* add_stock_view, create_purchase_order_view, disable_product_view,        *)
(* enable_product_view: inventory/views.py; create_expense_category,        *)
(* create_expense: accounts/views.py                                        *)

\* AddStockForm.is_valid(): an active product and a quantity of at least 1
AddStockForm_is_valid(db, req) ==
    /\ req.product \in Products
    /\ db.is_active[req.product]
    /\ req.quantity_to_add >= 1

\* product.stock_quantity += quantity_to_add; product.save()
add_stock_transaction(db, req) ==
    LET product == Product_get(db, req.product)
    IN [db |-> Product_save(db,
                  [product EXCEPT !.stock_quantity = @ + req.quantity_to_add]),
        exc |-> NoException]

add_stock_view ==
    /\ request.view = "add_stock"
    /\ response = NoResponse
    /\ before' = Snapshot(Database)
    /\ UNCHANGED request
    /\ IF ~(login_required(request.user)
            /\ user_passes_test(is_owner_or_stock_manager(request.user)))
       THEN /\ Commit(Database)
            /\ response' = LoginRedirect
       ELSE IF ~method_is_POST(request.method)
       THEN /\ Commit(Database)
            /\ response' = Page("")
       ELSE IF ~AddStockForm_is_valid(Database, request)
       THEN /\ Commit(Database)
            /\ response' = Page("Please correct the errors below.")
       ELSE LET result == add_stock_transaction(Database, request)
            IN /\ Commit(transaction_atomic(Database, result))
               /\ response' = Redirect("Successfully added")

\* po_form.is_valid() and formset.is_valid(): a status of STATUS_CHOICES
\* and lines that name products
PurchaseOrderForm_is_valid(req) ==
    /\ req.status \in STATUS_CHOICES
    /\ \A i \in 1..Len(req.items) : req.items[i].product \in Products

\* purchase_order.save(); formset.save()
create_purchase_order_transaction(db, req) ==
    [db |-> [db EXCEPT !.po_status = Append(@, req.status),
                       !.po_items = Append(@, req.items)],
     exc |-> NoException]

create_purchase_order_view ==
    /\ request.view = "create_po"
    /\ response = NoResponse
    /\ before' = Snapshot(Database)
    /\ UNCHANGED request
    /\ IF ~(login_required(request.user)
            /\ user_passes_test(is_owner_or_stock_manager(request.user)))
       THEN /\ Commit(Database)
            /\ response' = LoginRedirect
       ELSE IF ~method_is_POST(request.method)
       THEN /\ Commit(Database)
            /\ response' = Page("")
       ELSE IF ~PurchaseOrderForm_is_valid(request)
       THEN /\ Commit(Database)
            /\ response' = Page("Please correct the errors below.")
       ELSE LET result == create_purchase_order_transaction(Database, request)
            IN /\ Commit(transaction_atomic(Database, result))
               /\ response' = Redirect("created successfully!")

NotFound ==
    [status |-> 404, result |-> "error", message |-> "Not Found", sale_id |-> 0]

\* product.is_active = value; product.save()
Product_set_active(db, pk, value) == [db EXCEPT !.is_active[pk] = value]

disable_product_view ==
    /\ request.view = "disable_product"
    /\ response = NoResponse
    /\ before' = Snapshot(Database)
    /\ UNCHANGED request
    /\ IF ~(login_required(request.user)
            /\ user_passes_test(is_owner_or_stock_manager(request.user)))
       THEN /\ Commit(Database)
            /\ response' = LoginRedirect
       ELSE IF ~method_is_POST(request.method)
       THEN /\ Commit(Database)
            /\ response' = Redirect("Invalid request method.")
       ELSE IF request.pk \notin Products
       THEN /\ Commit(Database)
            /\ response' = NotFound
       ELSE /\ Commit(Product_set_active(Database, request.pk, FALSE))
            /\ response' = Redirect("Successfully disabled product")

enable_product_view ==
    /\ request.view = "enable_product"
    /\ response = NoResponse
    /\ before' = Snapshot(Database)
    /\ UNCHANGED request
    /\ IF ~(login_required(request.user)
            /\ user_passes_test(is_owner_or_stock_manager(request.user)))
       THEN /\ Commit(Database)
            /\ response' = LoginRedirect
       ELSE IF ~method_is_POST(request.method)
       THEN /\ Commit(Database)
            /\ response' = Redirect("Invalid request method.")
       ELSE IF request.pk \notin Products
       THEN /\ Commit(Database)
            /\ response' = NotFound
       ELSE /\ Commit(Product_set_active(Database, request.pk, TRUE))
            /\ response' = Redirect("Successfully enabled product")

\* ExpenseCategoryForm.is_valid(): the name is not taken (unique=True)
ExpenseCategoryForm_is_valid(db, req) ==
    \A c \in 1..Len(db.expense_categories) :
        db.expense_categories[c].name # req.name

create_expense_category ==
    /\ request.view = "create_expense_category"
    /\ response = NoResponse
    /\ before' = Snapshot(Database)
    /\ UNCHANGED request
    /\ IF ~(login_required(request.user)
            /\ user_passes_test(is_owner(request.user)))
       THEN /\ Commit(Database)
            /\ response' = LoginRedirect
       ELSE IF ~method_is_POST(request.method)
       THEN /\ Commit(Database)
            /\ response' = Page("")
       ELSE IF ~ExpenseCategoryForm_is_valid(Database, request)
       THEN /\ Commit(Database)
            /\ response' = Page("Please correct the errors below.")
       ELSE /\ Commit([Database EXCEPT !.expense_categories =
                          Append(@, [name |-> request.name])])
            /\ response' = Redirect("Expense category added successfully!")

\* ExpenseForm.is_valid(): the category is a row
ExpenseForm_is_valid(db, req) ==
    req.category \in 1..Len(db.expense_categories)

create_expense ==
    /\ request.view = "create_expense"
    /\ response = NoResponse
    /\ before' = Snapshot(Database)
    /\ UNCHANGED request
    /\ IF ~(login_required(request.user)
            /\ user_passes_test(is_owner(request.user)))
       THEN /\ Commit(Database)
            /\ response' = LoginRedirect
       ELSE IF ~method_is_POST(request.method)
       THEN /\ Commit(Database)
            /\ response' = Page("")
       ELSE IF ~ExpenseForm_is_valid(Database, request)
       THEN /\ Commit(Database)
            /\ response' = Page("Please correct the errors below.")
       ELSE /\ Commit([Database EXCEPT !.expenses =
                          Append(@, [category |-> request.category,
                                     amount |-> request.amount,
                                     recorded_by |-> request.user])])
            /\ response' = Redirect("Expense recorded successfully!")

\* The state-changing views, each asked by every kind of user with either
\* method and one or two inputs.
GatedRequests ==
    [view : {"pos"}, user : RequestUsers, method : {"GET", "POST"},
     customer_id : {NoCustomer}, items : {<<[product_id |-> 1, quantity |-> 1]>>},
     now : {1}]
    \cup [view : {"add_stock"}, user : RequestUsers, method : {"GET", "POST"},
          product : ProductIds, quantity_to_add : {1}]
    \cup [view : {"create_po"}, user : RequestUsers, method : {"GET", "POST"},
          status : {"Pending"}, items : {<<[product |-> 1, quantity |-> 1]>>}]
    \cup [view : {"receive"}, user : RequestUsers, method : {"GET", "POST"},
          pk : {1}, fault : {0}]
    \cup [view : {"adjust"}, user : RequestUsers, method : {"GET", "POST"},
          product : {1}, quantity_change : {1}, fault : {0}]
    \cup [view : {"disable_product", "enable_product"}, user : RequestUsers,
          method : {"GET", "POST"}, pk : ProductIds]
    \cup [view : {"create_expense_category"}, user : RequestUsers,
          method : {"GET", "POST"}, name : {1}]
    \cup [view : {"create_expense"}, user : RequestUsers,
          method : {"GET", "POST"}, category : {1}, amount : {1}]

\* rows added since the start
RowsWritten ==
    Len(sales) + Len(adjustments) + Len(expense_categories) + Len(expenses)
    + (Len(po_status) - NumOrders)

SubmitGated ==
    /\ request = NoRequest
    /\ RowsWritten < MaxWrites
    /\ \A p \in Products : stock_quantity[p] \in 0..MaxStock
    /\ \E req \in GatedRequests : request' = req
    /\ UNCHANGED <<rows, txn, row_lock, response, before>>

\* Access control: products with one unit in stock, a pending purchase
\* order for each product.
InitGated ==
    /\ InitRows
    /\ InitPlainProducts
    /\ stock_quantity = [p \in Products |-> 1]
    /\ price = PriceList(1)
    /\ po_status = [o \in PurchaseOrders |-> "Pending"]
    /\ po_items = [o \in PurchaseOrders |->
                      [p \in Products |-> [product |-> p, quantity |-> 1]]]

NextGated ==
    \/ SubmitGated
    \/ pos_view
    \/ add_stock_view
    \/ create_purchase_order_view
    \/ receive_purchase_order
    \/ create_stock_adjustment_view
    \/ disable_product_view
    \/ enable_product_view
    \/ create_expense_category
    \/ create_expense
    \/ Collect

SpecGated == InitGated /\ [][NextGated]_vars

----------------------------------------------------------------------------
(* pos_view under concurrent requests: inventory/views.py.  Each worker     *)
(* runs the view's statements one at a time inside its own transaction.     *)
(* The database is PostgreSQL at its default isolation (READ COMMITTED): a  *)
(* SELECT reads the committed row without a lock, an UPDATE takes the row's *)
(* write lock until its transaction ends, and the writes of a transaction   *)
(* are seen by the others when it commits.                                  *)

\* the lines concurrent sales ask for: one line each, no customer
RaceLines == [product_id : Products, quantity : 0..MaxQty]

\* the rows worker w's transaction sees: the committed rows with its own
\* uncommitted writes
txn_view(w) ==
    LET t == txn[w]
    IN [Database EXCEPT
           !.stock_quantity = [p \in Products |->
                                  IF p \in t.written THEN t.stock[p] ELSE @[p]],
           !.sales = Append(@, t.sale)]

\* a read that takes the row's lock (select_for_update)
Product_get_for_update(lock, w, p) == [lock EXCEPT ![p] = w]

\* product = Product.objects.get(id=product_id): a plain SELECT, the row's
\* lock is left as it is
Product_get_lock(lock, w, p) == lock

\* with transaction.atomic(): customer = None; sale = Sale.objects.create(...)
pos_begin(w) ==
    /\ txn[w].pc = "idle"
    /\ Len(sales) + Cardinality({v \in Workers : txn[v].pc # "idle"}) < MaxSales
    /\ \E line \in RaceLines :
          txn' = [txn EXCEPT ![w] =
                     [pc |-> "get_product", line |-> line,
                      sale |-> [customer |-> NoCustomer, total_amount |-> 0,
                                items |-> <<>>],
                      written |-> {}, stock |-> [p \in Products |-> 0],
                      product |-> [id |-> 0, stock_quantity |-> 0, price |-> 0],
                      read_stock |-> 0]]
    /\ UNCHANGED <<rows, row_lock, request, response, before>>

\* product = Product.objects.get(id=product_id) and the two checks; a
\* ValueError leaves the atomic block and the transaction is rolled back
pos_get_product(w) ==
    /\ txn[w].pc = "get_product"
    /\ LET line == txn[w].line
           product == Product_get(txn_view(w), line.product_id)
       IN IF line.quantity <= 0 \/ insufficient_stock(product, line.quantity)
          THEN /\ txn' = [txn EXCEPT ![w].pc = "rolled_back",
                                     ![w].read_stock = product.stock_quantity]
               /\ row_lock' = [p \in Products |->
                                  IF row_lock[p] = w THEN NoWorker ELSE row_lock[p]]
          ELSE /\ txn' = [txn EXCEPT ![w].pc = "create_item",
                                     ![w].product = product,
                                     ![w].read_stock = product.stock_quantity]
               /\ row_lock' = Product_get_lock(row_lock, w, line.product_id)
    /\ UNCHANGED <<rows, request, response, before>>

\* SaleItem.objects.create(...): SaleItem.save decrements the product object
\* and saves it (an UPDATE, which waits for the row's lock), then inserts
\* the item
pos_create_item(w) ==
    /\ txn[w].pc = "create_item"
    /\ row_lock[txn[w].line.product_id] \in {NoWorker, w}
    /\ LET t == txn[w]
           sale == Len(sales) + 1
           created == SaleItem_save(txn_view(w),
                          [sale |-> sale, pk |-> 0, product |-> t.product.id,
                           quantity |-> t.line.quantity,
                           unit_price |-> t.product.price,
                           subtotal |-> t.line.quantity * t.product.price],
                          t.product)
       IN txn' = [txn EXCEPT
                     ![w].pc = "decrement",
                     ![w].product = created.product,
                     ![w].written = @ \cup {t.product.id},
                     ![w].stock[t.product.id] =
                         created.db.stock_quantity[t.product.id],
                     ![w].sale = created.db.sales[sale]]
    /\ row_lock' = [row_lock EXCEPT ![txn[w].line.product_id] = w]
    /\ UNCHANGED <<rows, request, response, before>>

\* product.stock_quantity -= quantity; product.save(); then
\* sale.total_amount = total_sale_amount; sale.save()
pos_decrement_stock(w) ==
    /\ txn[w].pc = "decrement"
    /\ LET t == txn[w]
           db1 == pos_decrement(txn_view(w), t.product, t.line.quantity)
       IN txn' = [txn EXCEPT
                     ![w].pc = "commit",
                     ![w].product.stock_quantity = @ - t.line.quantity,
                     ![w].stock[t.product.id] = db1.stock_quantity[t.product.id],
                     ![w].sale.total_amount = t.line.quantity * t.product.price]
    /\ UNCHANGED <<rows, row_lock, request, response, before>>

\* the atomic block ends: the transaction's writes are committed and its
\* locks released
pos_commit(w) ==
    /\ txn[w].pc = "commit"
    /\ stock_quantity' = txn_view(w).stock_quantity
    /\ sales' = txn_view(w).sales
    /\ row_lock' = [p \in Products |->
                       IF row_lock[p] = w THEN NoWorker ELSE row_lock[p]]
    /\ txn' = [txn EXCEPT ![w].pc = "committed"]
    /\ UNCHANGED <<price, last_purchase, po_status, po_items, adjustments,
                   is_active, barcode, users, profiles, expense_categories,
                   expenses, request, response, before>>

\* the JsonResponse has been sent; the worker takes the next request
pos_respond(w) ==
    /\ txn[w].pc \in {"committed", "rolled_back"}
    /\ txn' = [txn EXCEPT ![w] = NoTxn]
    /\ UNCHANGED <<rows, row_lock, request, response, before>>

\* Concurrent sales: products with any stock from 0 to MaxStock.
InitPosRace ==
    /\ InitRows
    /\ InitPlainProducts
    /\ InitNoOrders
    /\ stock_quantity \in [Products -> 0..MaxStock]
    /\ price = PriceList(1)

NextPosRace ==
    \E w \in Workers :
        \/ pos_begin(w)
        \/ pos_get_product(w)
        \/ pos_create_item(w)
        \/ pos_decrement_stock(w)
        \/ pos_commit(w)
        \/ pos_respond(w)

SpecPosRace == InitPosRace /\ [][NextPosRace]_vars

----------------------------------------------------------------------------
(* SaleItem.save called on its own: inventory/models.py.  The item's        *)
(* product is loaded from its row when save() first reads self.product.     *)

\* item.save() of a new item of a sale (pk = 0) or of one of its items with
\* another quantity
SaleItem_save_alone ==
    /\ request.view = "saleitem_save"
    /\ response = NoResponse
    /\ before' = Snapshot(Database)
    /\ UNCHANGED request
    /\ LET old == sales[request.sale].items
           product_id == IF request.pk # 0 THEN old[request.pk].product
                         ELSE request.product
           unit_price == IF request.pk # 0 THEN old[request.pk].unit_price
                         ELSE 0
           result == SaleItem_save(Database,
                         [sale |-> request.sale, pk |-> request.pk,
                          product |-> product_id,
                          quantity |-> request.quantity,
                          unit_price |-> unit_price, subtotal |-> 0],
                         Product_get(Database, product_id))
       IN /\ Commit(transaction_atomic(Database, result))
          /\ response' = IF result.exc.type # "none"
                         THEN ServerError
                         ELSE [Page("saved") EXCEPT !.result = "done"]

\* the items that can be saved: a new item of an existing sale for a
\* product, or an existing item with any quantity
SubmitSaleItemSave ==
    /\ request = NoRequest
    /\ \E sale \in 1..Len(sales), quantity \in 0..MaxQty :
          \/ \E product \in Products :
                request' = [view |-> "saleitem_save", sale |-> sale, pk |-> 0,
                            product |-> product, quantity |-> quantity]
          \/ \E pk \in 1..Len(sales[sale].items) :
                request' = [view |-> "saleitem_save", sale |-> sale, pk |-> pk,
                            product |-> 0, quantity |-> quantity]
    /\ UNCHANGED <<rows, txn, row_lock, response, before>>

\* A POS sale, then saves of its items.
SpecSaleItemSave ==
    InitSaleAdmin
    /\ [][SubmitPosLine \/ pos_view \/ SubmitSaleItemSave
          \/ SaleItem_save_alone \/ Collect]_vars

----------------------------------------------------------------------------
\* POS sales in sequence from a known stock: every product starts at
\* MaxStock and nothing but the POS changes the stock.
SpecPosSequence == InitSaleAdmin /\ [][NextPos]_vars

----------------------------------------------------------------------------
(* receive_purchase_order under concurrent requests: inventory/views.py.    *)
(* Each worker runs the view's statements one at a time; the order is read  *)
(* before the atomic block, with a plain SELECT, and the isolation is that  *)
(* of the concurrent sales above.                                           *)

\* purchase_order = get_object_or_404(PurchaseOrder, pk=pk) and the
\* already-received check; the requests in flight together are for one
\* order, and `before` keeps the rows the first of them found
receive_begin(w) ==
    /\ txn[w].pc = "idle"
    /\ \E pk \in PurchaseOrders :
          /\ \A v \in Workers : txn[v].pc # "idle" => txn[v].pk = pk
          /\ txn' = [txn EXCEPT ![w] =
                        [pc |-> IF already_received(po_status[pk])
                                THEN "info"
                                ELSE IF po_items[pk] = <<>>
                                THEN "save_order" ELSE "get_product",
                         pk |-> pk, items |-> po_items[pk],
                         written |-> {}, stock |-> [p \in Products |-> 0],
                         product |-> [id |-> 0, stock_quantity |-> 0,
                                      price |-> 0]]]
    /\ before' = IF \A v \in Workers : txn[v].pc = "idle"
                 THEN Snapshot(Database) ELSE before
    /\ UNCHANGED <<rows, row_lock, request, response>>

\* product = item.product: the line's product is loaded from its row, a
\* plain SELECT that sees the committed rows and the transaction's own
\* writes
receive_get_product(w) ==
    /\ txn[w].pc = "get_product"
    /\ txn' = [txn EXCEPT
                  ![w].pc = "save_product",
                  ![w].product =
                      Product_get(
                          [Database EXCEPT
                              !.stock_quantity =
                                  [p \in Products |->
                                      IF p \in txn[w].written
                                      THEN txn[w].stock[p] ELSE @[p]]],
                          Head(txn[w].items).product)]
    /\ UNCHANGED <<rows, row_lock, request, response, before>>

\* product.stock_quantity += item.quantity; product.save(): an UPDATE, which
\* waits for the row's lock and keeps it until the transaction ends
receive_save_product(w) ==
    /\ txn[w].pc = "save_product"
    /\ row_lock[txn[w].product.id] \in {NoWorker, w}
    /\ LET t == txn[w]
           item == Head(t.items)
           product1 == [t.product EXCEPT
                           !.stock_quantity = receive_increment(@, item.quantity)]
           db1 == Product_save(Database, product1)
       IN txn' = [txn EXCEPT
                     ![w].pc = IF Tail(t.items) = <<>> THEN "save_order"
                               ELSE "get_product",
                     ![w].items = Tail(t.items),
                     ![w].product = product1,
                     ![w].written = @ \cup {product1.id},
                     ![w].stock[product1.id] = db1.stock_quantity[product1.id]]
    /\ row_lock' = [row_lock EXCEPT ![txn[w].product.id] = w]
    /\ UNCHANGED <<rows, request, response, before>>

\* purchase_order.status = 'Received'; purchase_order.save(), and the atomic
\* block ends: nothing is read between the two, so they are one step.  The
\* transaction's writes are committed and its locks released.
receive_save_order(w) ==
    /\ txn[w].pc = "save_order"
    /\ stock_quantity' = [p \in Products |->
                             IF p \in txn[w].written THEN txn[w].stock[p]
                             ELSE stock_quantity[p]]
    /\ po_status' = [po_status EXCEPT ![txn[w].pk] = "Received"]
    /\ row_lock' = [p \in Products |->
                       IF row_lock[p] = w THEN NoWorker ELSE row_lock[p]]
    /\ txn' = [txn EXCEPT ![w].pc = "committed"]
    /\ UNCHANGED <<price, sales, last_purchase, po_items, adjustments,
                   is_active, barcode, users, profiles, expense_categories,
                   expenses, request, response, before>>

\* return redirect('inventory:purchase_order_detail', pk=pk), after
\* messages.info or messages.success; the worker takes the next request
receive_respond(w) ==
    /\ txn[w].pc \in {"committed", "info"}
    /\ txn' = [txn EXCEPT ![w] = NoTxn]
    /\ UNCHANGED <<rows, row_lock, request, response, before>>

SpecReceiveRace ==
    InitReceive
    /\ [][\E w \in Workers :
             \/ receive_begin(w)
             \/ receive_get_product(w)
             \/ receive_save_product(w)
             \/ receive_save_order(w)
             \/ receive_respond(w)]_vars

----------------------------------------------------------------------------
(* Login and the pages it leads to: accounts/views.py, inventory/views.py.  *)
(* A browser follows each redirect with a GET of its target; request.chain  *)
(* lists the views whose redirects led to the request.                      *)

\* the redirects a browser follows before it gives up
MaxHops == 4

\* LoginView.get_success_url without the override: LOGIN_REDIRECT_URL
get_success_url_default(user) == "pos"

\* CustomLoginView.get_success_url
get_success_url(user) ==
    IF is_owner(user) THEN "owner_dashboard"
    ELSE IF is_stock_manager(user) THEN "stock_manager_dashboard"
    ELSE IF is_cashier(user) THEN "pos"
    ELSE "product_list"

\* CustomLoginView: redirect_authenticated_user sends a user who is logged
\* in to get_success_url(); a POST with the credentials of an account logs
\* it in and redirects the same way; otherwise the form is rendered
CustomLoginView ==
    /\ request.view = "login"
    /\ response = NoResponse
    /\ before' = Snapshot(Database)
    /\ UNCHANGED request
    /\ Commit(Database)
    /\ response' = IF request.user.is_authenticated
                   THEN [LoginRedirect EXCEPT
                            !.result = get_success_url(request.user)]
                   ELSE IF method_is_POST(request.method)
                           /\ request.account.is_authenticated
                   THEN [LoginRedirect EXCEPT
                            !.result = get_success_url(request.account)]
                   ELSE Page("")

owner_dashboard ==
    /\ request.view = "owner_dashboard"
    /\ response = NoResponse
    /\ before' = Snapshot(Database)
    /\ UNCHANGED request
    /\ Commit(Database)
    /\ response' = IF ~(login_required(request.user)
                        /\ user_passes_test(is_owner(request.user)))
                   THEN LoginRedirect
                   ELSE Page("")

stock_manager_dashboard ==
    /\ request.view = "stock_manager_dashboard"
    /\ response = NoResponse
    /\ before' = Snapshot(Database)
    /\ UNCHANGED request
    /\ Commit(Database)
    /\ response' = IF ~(login_required(request.user)
                        /\ user_passes_test(is_stock_manager(request.user)))
                   THEN LoginRedirect
                   ELSE Page("")

\* ProductListView: no decorator, the list is rendered for everyone
ProductListView ==
    /\ request.view = "product_list"
    /\ response = NoResponse
    /\ before' = Snapshot(Database)
    /\ UNCHANGED request
    /\ Commit(Database)
    /\ response' = Page("")

\* a page is asked for by address, or the login form is posted with the
\* credentials of an account (AnonymousUser: with wrong credentials)
SubmitNav ==
    /\ request = NoRequest
    /\ \E req \in
           [view : {"login", "owner_dashboard", "stock_manager_dashboard",
                    "pos", "product_list"},
            user : RequestUsers, method : {"GET"},
            account : {AnonymousUser}, chain : {<<>>}]
           \cup [view : {"login"}, user : RequestUsers, method : {"POST"},
                 account : RequestUsers, chain : {<<>>}] :
          request' = req
    /\ UNCHANGED <<rows, txn, row_lock, response, before>>

\* the browser follows a redirect with a GET of its target; the user of the
\* session is the account a login POST has just logged in, otherwise the
\* user of the request
FollowRedirect ==
    /\ "chain" \in DOMAIN request
    /\ response # NoResponse
    /\ response.status = 302
    /\ Len(request.chain) < MaxHops
    /\ request' = [view |-> response.result,
                   user |-> IF request.view = "login"
                               /\ ~request.user.is_authenticated
                            THEN request.account
                            ELSE request.user,
                   method |-> "GET", account |-> AnonymousUser,
                   chain |-> Append(request.chain, request.view)]
    /\ response' = NoResponse
    /\ UNCHANGED <<rows, txn, row_lock, before>>

\* Navigation by any user, and a sale at the POS.
SpecLogin ==
    InitGated
    /\ [][SubmitNav \/ SubmitPosLine \/ CustomLoginView \/ owner_dashboard
          \/ stock_manager_dashboard \/ pos_view \/ ProductListView
          \/ FollowRedirect \/ Collect]_vars

----------------------------------------------------------------------------
(* Report date ranges: inventory/views.py (get_filtered_sales_query, used   *)
(* by sales_report_view and export_sales_csv) and accounts/views.py         *)
(* (expense_report).  A date is a record of year, month and day; the text   *)
(* of a start_date or end_date parameter is the three numbers it spells.    *)

\* the years date.today() is drawn from
FirstYear == 2023
NumYears == 2

date(year, month, day) == [year |-> year, month |-> month, day |-> day]

days_in_month(year, month) ==
    IF month = 2
    THEN (IF year % 4 = 0 /\ (year % 100 # 0 \/ year % 400 = 0)
          THEN 29 ELSE 28)
    ELSE IF month \in {4, 6, 9, 11} THEN 30
    ELSE 31

\* d - timedelta(days=n)
RECURSIVE date_sub_days(_, _)
date_sub_days(d, n) ==
    IF n = 0 THEN d
    ELSE date_sub_days(
             IF d.day > 1 THEN date(d.year, d.month, d.day - 1)
             ELSE IF d.month > 1
             THEN date(d.year, d.month - 1, days_in_month(d.year, d.month - 1))
             ELSE date(d.year - 1, 12, 31),
             n - 1)

\* request.GET.get('start_date'): no parameter
NoText == date(0, 0, 0)

\* a custom bound whose text is not parsed
custom_bound_ignored(text, resolved, message) ==
    [date |-> resolved, messages |-> <<>>]

\* if text: try: bound = datetime.strptime(text, '%Y-%m-%d').date()
\* except ValueError: messages.error(request, message)
\* strptime raises ValueError unless the text spells a day of the calendar
custom_bound(text, resolved, message) ==
    IF text = NoText THEN [date |-> resolved, messages |-> <<>>]
    ELSE IF /\ text.year \in 1..9999
            /\ text.month \in 1..12
            /\ text.day \in 1..days_in_month(text.year, text.month)
    THEN [date |-> text, messages |-> <<>>]
    ELSE [date |-> resolved, messages |-> <<message>>]

\* last month taken as the 30 days before this month
last_month_30_days(today) ==
    [start_date |-> date_sub_days(date(today.year, today.month, 1), 30),
     end_date |-> date_sub_days(date(today.year, today.month, 1), 1)]

\* first_day_current_month = today.replace(day=1)
\* end_date = first_day_current_month - timedelta(days=1)
\* start_date = end_date.replace(day=1)
last_month(today) ==
    LET first_day_current_month == date(today.year, today.month, 1)
        end_date == date_sub_days(first_day_current_month, 1)
    IN [start_date |-> date(end_date.year, end_date.month, 1),
        end_date |-> end_date]

\* get_filtered_sales_query: the range of the period
sales_period_range(today, filter_period) ==
    IF filter_period = "today"
    THEN [start_date |-> today, end_date |-> today]
    ELSE IF filter_period = "last_7_days"
    THEN [start_date |-> date_sub_days(today, 6), end_date |-> today]
    ELSE IF filter_period = "last_30_days"
    THEN [start_date |-> date_sub_days(today, 29), end_date |-> today]
    ELSE IF filter_period = "this_month"
    THEN [start_date |-> date(today.year, today.month, 1), end_date |-> today]
    ELSE IF filter_period = "last_month"
    THEN last_month(today)
    ELSE IF filter_period = "this_year"
    THEN [start_date |-> date(today.year, 1, 1), end_date |-> today]
    ELSE IF filter_period = "all_time"
    THEN [start_date |-> date(1, 1, 1), end_date |-> today]
    ELSE [start_date |-> date_sub_days(today, 29), end_date |-> today]

\* get_filtered_sales_query: the period (last_30_days if none is given)
\* first, then the custom bounds
get_filtered_sales_query(req) ==
    LET filter_period == IF req.period = "" THEN "last_30_days" ELSE req.period
        range == sales_period_range(req.today, filter_period)
        start == custom_bound(req.start_date, range.start_date,
                     "Invalid start date format. Please use YYYY-MM-DD.")
        end == custom_bound(req.end_date, range.end_date,
                   "Invalid end date format. Please use YYYY-MM-DD.")
    IN [start_date |-> start.date, end_date |-> end.date,
        messages |-> start.messages \o end.messages]

\* the report is rendered over the rows dated within the range
sales_report_view ==
    /\ request.view = "sales_report"
    /\ response = NoResponse
    /\ before' = Snapshot(Database)
    /\ UNCHANGED request
    /\ Commit(Database)
    /\ response' = IF ~(login_required(request.user)
                        /\ user_passes_test(is_owner(request.user)))
                   THEN LoginRedirect
                   ELSE Page("") @@ get_filtered_sales_query(request)

export_sales_csv ==
    /\ request.view = "export_sales_csv"
    /\ response = NoResponse
    /\ before' = Snapshot(Database)
    /\ UNCHANGED request
    /\ Commit(Database)
    /\ response' = IF ~(login_required(request.user)
                        /\ user_passes_test(is_owner(request.user)))
                   THEN LoginRedirect
                   ELSE [Page("") EXCEPT !.result = "csv"]
                        @@ get_filtered_sales_query(request)

\* expense_report: this month unless the period (this_month if none is
\* given) is last_month, this_year or custom; the custom bounds are read
\* for period = custom only
expense_report ==
    /\ request.view = "expense_report"
    /\ response = NoResponse
    /\ before' = Snapshot(Database)
    /\ UNCHANGED request
    /\ Commit(Database)
    /\ LET today == request.today
           filter_period == IF request.period = "" THEN "this_month"
                            ELSE request.period
           default == [start_date |-> date(today.year, today.month, 1),
                       end_date |-> today]
           start == custom_bound(request.start_date, default.start_date,
                        "Invalid start date format for custom range.")
           end == custom_bound(request.end_date, default.end_date,
                      "Invalid end date format for custom range.")
           range ==
               IF filter_period = "last_month"
               THEN last_month(today) @@ [messages |-> <<>>]
               ELSE IF filter_period = "this_year"
               THEN [start_date |-> date(today.year, 1, 1),
                     end_date |-> today, messages |-> <<>>]
               ELSE IF filter_period = "custom"
               THEN [start_date |-> start.date, end_date |-> end.date,
                     messages |-> start.messages \o end.messages]
               ELSE default @@ [messages |-> <<>>]
       IN response' = IF ~(login_required(request.user)
                           /\ user_passes_test(is_owner(request.user)))
                      THEN LoginRedirect
                      ELSE Page("") @@ range

\* reports asked for by an owner on any day of the years, with any period
\* ("": no parameter) and the texts "2024-02-29", "2023-02-29" and
\* "2024-13-01" as custom bounds
SubmitReport ==
    /\ request = NoRequest
    /\ \E req \in
           [view : {"sales_report", "export_sales_csv", "expense_report"},
            user : {Employee("Owner")}, method : {"GET"},
            today : {d \in [year : FirstYear..(FirstYear + NumYears - 1),
                            month : 1..12, day : 1..31] :
                        d.day <= days_in_month(d.year, d.month)},
            period : {"", "today", "last_7_days", "last_30_days",
                      "this_month", "last_month", "this_year", "all_time",
                      "custom"},
            start_date : {NoText, date(2024, 2, 29), date(2023, 2, 29),
                          date(2024, 13, 1)},
            end_date : {NoText, date(2024, 2, 29), date(2023, 2, 29),
                        date(2024, 13, 1)}] :
          request' = req
    /\ UNCHANGED <<rows, txn, row_lock, response, before>>

SpecReports ==
    InitSaleAdmin
    /\ [][SubmitReport \/ sales_report_view \/ export_sales_csv
          \/ expense_report \/ Collect]_vars

----------------------------------------------------------------------------
(* Properties.  Each is stated on the state in which a view has answered:   *)
(* `request` is what it was given, `before.db` the committed rows it        *)
(* started from, the variables the committed rows it left.                  *)

Answered(view) == request.view = view /\ response # NoResponse

PosAnswered == Answered("pos") /\ request.method = "POST"

PosSucceeded == PosAnswered /\ response.result = "success"

\* total quantity the lines of a request ask of product p
RECURSIVE LineQuantity(_, _)
LineQuantity(lines, p) ==
    IF lines = <<>> THEN 0
    ELSE (IF Head(lines).product_id = p THEN Head(lines).quantity ELSE 0)
         + LineQuantity(Tail(lines), p)

\* C1: after a successful POS sale the committed stock of every product is
\* its stock before the request minus the quantity the request's lines ask
\* of it (so products not in the request keep their stock).
C1_SaleDecrementsByQuantity ==
    PosSucceeded =>
        \A p \in Products :
            stock_quantity[p] =
                before.db.stock_quantity[p] - LineQuantity(request.items, p)

\* C2: no sequence of POS sale requests, from non-negative stock, leaves a
\* product with negative stock.
C2_StockNeverNegative ==
    \A p \in Products : stock_quantity[p] >= 0

\* a line that names a product row and asks more than its stock
ExceedsStock(line, stock) ==
    /\ line.product_id \in Products
    /\ line.quantity > stock[line.product_id]

\* C3: a POS sale request with a line asking more than the product's stock
\* is answered with an error, and every product's stock is what it was
\* before the request.
C3_InsufficientStockRejected ==
    (/\ PosAnswered
     /\ \E i \in 1..Len(request.items) :
            ExceedsStock(request.items[i], before.db.stock_quantity))
    => /\ response.result = "error"
       /\ stock_quantity = before.db.stock_quantity

\* C3 witness: the first line was in stock and of another product, so it had
\* been decremented when the second line was refused.
C3_Witness ==
    /\ PosAnswered
    /\ Len(request.items) = 2
    /\ request.items[1].product_id \in Products
    /\ request.items[1].quantity > 0
    /\ ~ExceedsStock(request.items[1], before.db.stock_quantity)
    /\ request.items[2].product_id # request.items[1].product_id
    /\ ExceedsStock(request.items[2], before.db.stock_quantity)
    /\ response.message = "Not enough stock"

\* a line that cannot be sold: missing product, quantity <= 0, more than the
\* stock, or a product an earlier line of the request already named
FailingLine(lines, i, stock) ==
    \/ lines[i].product_id \notin Products
    \/ lines[i].quantity <= 0
    \/ ExceedsStock(lines[i], stock)
    \/ \E j \in 1..(i - 1) : lines[j].product_id = lines[i].product_id

\* C4: a POS sale request with a failing line is answered with an error and
\* commits no Sale, no SaleItem, no stock change and no last_purchase change.
C4_SaleAllOrNothing ==
    (/\ PosAnswered
     /\ \E i \in 1..Len(request.items) :
            FailingLine(request.items, i, before.db.stock_quantity))
    => /\ response.result = "error"
       /\ sales = before.db.sales
       /\ stock_quantity = before.db.stock_quantity
       /\ last_purchase = before.db.last_purchase

\* C4 witness: the same product twice, each line in stock on its own, with a
\* customer named; the second SaleItem breaks the unique constraint.
C4_Witness ==
    /\ PosAnswered
    /\ request.customer_id \in Customers
    /\ Len(request.items) = 2
    /\ request.items[1].product_id \in Products
    /\ request.items[2].product_id = request.items[1].product_id
    /\ \A i \in 1..2 :
          /\ request.items[i].quantity > 0
          /\ ~ExceedsStock(request.items[i], before.db.stock_quantity)
    /\ response.status = 500

\* sum over the lines of quantity times the product's price
RECURSIVE LinesAmount(_, _)
LinesAmount(lines, prices) ==
    IF lines = <<>> THEN 0
    ELSE Head(lines).quantity * prices[Head(lines).product_id]
         + LinesAmount(Tail(lines), prices)

\* C5: the Sale committed by a successful POS request has total_amount equal
\* to the sum over the lines of quantity times price, and one SaleItem per
\* line with unit_price the product's price and subtotal quantity times
\* unit_price.
C5_SaleTotals ==
    PosSucceeded =>
        LET sale == sales[response.sale_id]
        IN /\ response.sale_id = Len(before.db.sales) + 1
           /\ sale.total_amount = LinesAmount(request.items, before.db.price)
           /\ Len(sale.items) = Len(request.items)
           /\ \A i \in 1..Len(request.items) :
                 /\ sale.items[i].product = request.items[i].product_id
                 /\ sale.items[i].quantity = request.items[i].quantity
                 /\ sale.items[i].unit_price =
                        before.db.price[request.items[i].product_id]
                 /\ sale.items[i].subtotal =
                        sale.items[i].quantity * sale.items[i].unit_price

\* C5 witness: a sale of two lines with different prices, more than one unit
\* of one of them.
C5_Witness ==
    /\ PosSucceeded
    /\ Len(request.items) = 2
    /\ price[request.items[1].product_id] # price[request.items[2].product_id]
    /\ request.items[1].quantity > 1

ReceiveAnswered ==
    /\ Answered("receive")
    /\ request.method = "POST"
    /\ request.pk \in PurchaseOrders

\* the request ran with no save() failing
NoFault(items) == request.fault = 0 \/ request.fault > Len(items) + 1

\* quantity an order's lines bring of product p
RECURSIVE OrderedQuantity(_, _)
OrderedQuantity(items, p) ==
    IF items = <<>> THEN 0
    ELSE (IF Head(items).product = p THEN Head(items).quantity ELSE 0)
         + OrderedQuantity(Tail(items), p)

\* C6: receiving an order that is Pending, Ordered or Canceled adds each
\* line's quantity to its product's stock, sets the status to Received and
\* changes no other product's stock.
C6_ReceiveIncrementsStock ==
    (/\ ReceiveAnswered
     /\ before.db.po_status[request.pk] # "Received"
     /\ NoFault(po_items[request.pk]))
    => /\ po_status[request.pk] = "Received"
       /\ \A p \in Products :
             stock_quantity[p] =
                 before.db.stock_quantity[p]
                 + OrderedQuantity(po_items[request.pk], p)
       /\ \A o \in PurchaseOrders \ {request.pk} :
             po_status[o] = before.db.po_status[o]

\* C6 witness: a Canceled order of one line was received, the other product
\* had stock.
C6_Witness ==
    /\ ReceiveAnswered
    /\ before.db.po_status[request.pk] = "Canceled"
    /\ request.fault = 0
    /\ Len(po_items[request.pk]) = 1
    /\ \E p \in Products :
          /\ OrderedQuantity(po_items[request.pk], p) = 0
          /\ stock_quantity[p] > 0
    /\ \E p \in Products :
          /\ before.db.stock_quantity[p] > 0
          /\ OrderedQuantity(po_items[request.pk], p) > 0

\* C7: a receive request for an order that is already Received changes no
\* stock and no order, reports that it was already received, and leaves the
\* status Received.
C7_ReceiveIdempotent ==
    (/\ ReceiveAnswered
     /\ before.db.po_status[request.pk] = "Received")
    => /\ stock_quantity = before.db.stock_quantity
       /\ po_status = before.db.po_status
       /\ po_status[request.pk] = "Received"
       /\ response.message = "has already been received"

\* C7 witness: the order was received by an earlier request of this run
\* (stock above MaxStock comes from a receipt only) and is asked for again.
C7_Witness ==
    /\ ReceiveAnswered
    /\ before.db.po_status[request.pk] = "Received"
    /\ \E p \in Products :
          /\ OrderedQuantity(po_items[request.pk], p) > 0
          /\ before.db.stock_quantity[p] > MaxStock

\* C8: a receipt in which a save() fails commits no stock increment and
\* leaves the order's status what it was.
C8_ReceiveAllOrNothing ==
    (/\ ReceiveAnswered
     /\ before.db.po_status[request.pk] # "Received"
     /\ ~NoFault(po_items[request.pk]))
    => /\ stock_quantity = before.db.stock_quantity
       /\ po_status = before.db.po_status
       /\ response.message = "Error receiving Purchase Order"

\* C8 witness: a two-line order whose first product was saved and whose
\* second save() failed.
C8_Witness ==
    /\ ReceiveAnswered
    /\ before.db.po_status[request.pk] # "Received"
    /\ Len(po_items[request.pk]) = 2
    /\ request.fault = 2

AdjustAnswered == Answered("adjust") /\ request.method = "POST"

\* C9: a stock adjustment request commits the StockAdjustment record and the
\* stock change together or not at all.
C9_AdjustmentAtomic ==
    AdjustAnswered =>
        \/ /\ adjustments = before.db.adjustments
           /\ stock_quantity = before.db.stock_quantity
        \/ /\ request.product \in Products
           /\ adjustments =
                  Append(before.db.adjustments,
                         [product |-> request.product,
                          quantity_change |-> request.quantity_change])
           /\ stock_quantity =
                  [before.db.stock_quantity EXCEPT
                      ![request.product] = @ + request.quantity_change]

\* C10: a valid stock adjustment of d on a product with stock s leaves it at
\* s + d, below zero too, and leaves the other products' stock alone.
C10_AdjustmentAddsDelta ==
    (/\ AdjustAnswered
     /\ request.product \in Products
     /\ request.fault = 0)
    => stock_quantity =
           [before.db.stock_quantity EXCEPT
               ![request.product] = @ + request.quantity_change]

\* C10 witness: a removal that took the stock below zero.
C10_Witness ==
    /\ AdjustAnswered
    /\ request.product \in Products
    /\ request.fault = 0
    /\ request.quantity_change < 0
    /\ stock_quantity[request.product] < 0
    /\ response.status = 302

\* C17: a successful POS sale that names a customer sets that customer's
\* last_purchase to the time of the request and leaves every other
\* customer's alone; a sale without a customer, and a rejected sale, leave
\* every customer's last_purchase as it was.
C17_LastPurchaseStamped ==
    PosAnswered =>
        \A c \in Customers :
            last_purchase[c] =
                IF PosSucceeded /\ request.customer_id = c
                THEN request.now
                ELSE before.db.last_purchase[c]

\* a successful sale to a customer whose last purchase was earlier
C17_Witness ==
    /\ PosSucceeded
    /\ request.customer_id \in Customers
    /\ before.db.last_purchase[request.customer_id] \notin {0, request.now}
    /\ last_purchase[request.customer_id] = request.now

\* C19: every Sale committed by the POS has at least one SaleItem.
C19_SaleHasItems ==
    \A s \in 1..Len(sales) : Len(sales[s].items) >= 1

BarcodeAnswered == Answered("barcode")

\* the products a barcode names that are active and in stock
Sellable(db, code) ==
    {p \in Products :
        db.barcode[p] = code /\ db.is_active[p] /\ db.stock_quantity[p] > 0}

\* C18: the barcode lookup answers a GET that gives a barcode with the
\* success payload {id, name, price, stock_quantity, barcode} of the product
\* exactly when a product with that barcode exists, is active and has
\* stock_quantity > 0, and with 404 otherwise; a GET without a barcode gets
\* 400, any other method 405; the committed rows are never changed.
C18_BarcodeLookup ==
    BarcodeAnswered =>
        /\ Database = before.db
        /\ request.method # "GET" => response.status = 405
        /\ request.method = "GET" /\ request.barcode = NoBarcode =>
               response.status = 400
        /\ request.method = "GET" /\ request.barcode # NoBarcode =>
               LET sellable == Sellable(before.db, request.barcode)
               IN /\ response.result = "success" <=> sellable # {}
                  /\ sellable = {} => response.status = 404
                  /\ sellable # {} =>
                        /\ response.status = 200
                        /\ DOMAIN response.product =
                             {"id", "name", "price", "stock_quantity", "barcode"}
                        /\ response.product.id \in sellable
                        /\ response.product.barcode = request.barcode
                        /\ response.product.stock_quantity =
                             before.db.stock_quantity[response.product.id]
                        /\ response.product.price =
                             str(before.db.price[response.product.id])

\* a lookup refused because the product with that barcode is inactive,
\* though in stock
C18_Witness ==
    /\ BarcodeAnswered
    /\ request.method = "GET"
    /\ response.status = 404
    /\ \E p \in Products :
          /\ barcode[p] = request.barcode
          /\ ~is_active[p]
          /\ stock_quantity[p] > 0

\* C16: every user account has exactly one EmployeeProfile, and every
\* EmployeeProfile belongs to an account, after any sequence of account
\* creations and saves.
C16_OneProfilePerUser ==
    /\ \A u \in 1..Len(users) :
          Cardinality({i \in 1..Len(profiles) : profiles[i].user = u}) = 1
    /\ \A i \in 1..Len(profiles) : profiles[i].user \in 1..Len(users)

\* an existing account has been saved again, next to another account
C16_Witness ==
    /\ Answered("admin_user_change")
    /\ request.user \in 1..Len(before.db.users)
    /\ response.message = "was changed successfully"
    /\ Len(users) >= 2

\* quantity of product p in the SaleItems that exist
RECURSIVE ItemsQuantity(_, _)
ItemsQuantity(items, p) ==
    IF items = <<>> THEN 0
    ELSE (IF Head(items).product = p THEN Head(items).quantity ELSE 0)
         + ItemsQuantity(Tail(items), p)

RECURSIVE SoldQuantity(_, _)
SoldQuantity(ss, p) ==
    IF ss = <<>> THEN 0
    ELSE ItemsQuantity(Head(ss).items, p) + SoldQuantity(Tail(ss), p)

SaleItemDeleted ==
    /\ Answered("admin_sale")
    /\ request.deleted # 0
    /\ response.message = "was changed successfully"

\* C11: deleting a SaleItem undoes its creation.  Every product starts at
\* MaxStock and only POS sales and deletions of their items happen, so after
\* a deletion each product's stock is MaxStock less the quantities of the
\* SaleItems that still exist.
C11_DeleteInvertsCreate ==
    SaleItemDeleted =>
        \A p \in Products :
            stock_quantity[p] = MaxStock - SoldQuantity(sales, p)

RECURSIVE SubtotalsOf(_)
SubtotalsOf(items) ==
    IF items = <<>> THEN 0
    ELSE Head(items).subtotal + SubtotalsOf(Tail(items))

\* C20: in every committed state reached by POS sales and by the sale
\* admin's additions, quantity edits and deletions of SaleItems, each Sale's
\* total_amount is the sum of the subtotals of the SaleItems it owns.
C20_TotalIsSumOfSubtotals ==
    \A s \in 1..Len(sales) :
        sales[s].total_amount = SubtotalsOf(sales[s].items)

\* the quantity of an item of a sale has been edited, and the total changed
C20_Witness ==
    /\ Answered("admin_sale")
    /\ response.message = "was changed successfully"
    /\ request.instances # <<>>
    /\ request.instances[1].pk # 0
    /\ sales[request.sale].total_amount #
           before.db.sales[request.sale].total_amount
    /\ sales[request.sale].total_amount > 0

\* C13: is_owner admits exactly the authenticated users whose profile role
\* is Owner; is_cashier exactly the authenticated users with role Cashier or
\* Owner or who are superusers; is_stock_manager exactly the authenticated
\* users with role Stock Manager or Owner or who are superusers: whatever
\* the user of the request is.
C13_RolePredicates ==
    request # NoRequest =>
        LET user == request.user
        IN /\ is_owner(user) <=>
                  (user.is_authenticated /\ user.role = "Owner")
           /\ is_cashier(user) <=>
                  /\ user.is_authenticated
                  /\ (user.role = "Cashier" \/ user.role = "Owner"
                      \/ user.is_superuser)
           /\ is_stock_manager(user) <=>
                  /\ user.is_authenticated
                  /\ (user.role = "Stock Manager" \/ user.role = "Owner"
                      \/ user.is_superuser)

\* the role predicate in front of each state-changing view
RolePredicate(view, user) ==
    CASE view = "pos" -> is_cashier(user)
      [] view \in {"add_stock", "create_po", "receive", "adjust",
                   "disable_product", "enable_product"} ->
            is_owner(user) \/ is_stock_manager(user)
      [] view \in {"create_expense_category", "create_expense"} ->
            is_owner(user)

StateChangingViews ==
    {"pos", "add_stock", "create_po", "receive", "adjust", "disable_product",
     "enable_product", "create_expense_category", "create_expense"}

\* C14: a request to a state-changing view from a user who fails the view's
\* role predicate is answered with the redirect to the login page and
\* changes no committed row.
C14_RoleGate ==
    \A view \in StateChangingViews :
        Answered(view) /\ ~RolePredicate(view, request.user) =>
            /\ response = LoginRedirect
            /\ Database = before.db

\* a cashier's POST to add stock, and a stock manager's POST of an expense,
\* are sent to the login page
C14_Witness ==
    \/ /\ Answered("add_stock")
       /\ request.user = Employee("Cashier")
       /\ request.method = "POST"
       /\ response = LoginRedirect
       /\ RowsWritten > 0
    \/ /\ Answered("create_expense")
       /\ request.user = Employee("Stock Manager")
       /\ request.method = "POST"
       /\ response = LoginRedirect
       /\ RowsWritten > 0

\* C15: a request with a method other than POST to receive_purchase_order,
\* disable_product_view, enable_product_view or the POS leaves every
\* product's stock_quantity and is_active, every order's status and the
\* sales as they were.
C15_PostOnly ==
    \A view \in {"receive", "disable_product", "enable_product", "pos"} :
        Answered(view) /\ request.method # "POST" =>
            /\ stock_quantity = before.db.stock_quantity
            /\ is_active = before.db.is_active
            /\ po_status = before.db.po_status
            /\ sales = before.db.sales

\* an owner's GET to disable an active product is turned away by the view
C15_Witness ==
    /\ Answered("disable_product")
    /\ request.user = Employee("Owner")
    /\ request.method = "GET"
    /\ response.message = "Invalid request method."
    /\ is_active[request.pk]

\* C12: no row lock is taken for the stock check of a POS sale: a
\* transaction that has read a product and passed the check, and has not
\* written yet, does not hold the product row's lock.  So two concurrent
\* sales of one product can both pass the check against the same stock
\* value and both commit (C12_Witness).
C12_CheckTakesNoLock ==
    \A w \in Workers :
        txn[w].pc = "create_item" =>
            row_lock[txn[w].line.product_id] # w

\* both workers have committed a sale of the same product after checking it
\* against the same stock value, and together they sold more than that
C12_Witness ==
    \E v, w \in Workers :
        /\ v # w
        /\ txn[v].pc = "committed"
        /\ txn[w].pc = "committed"
        /\ txn[v].line.product_id = txn[w].line.product_id
        /\ txn[v].read_stock = txn[w].read_stock
        /\ txn[v].line.quantity + txn[w].line.quantity > txn[v].read_stock

SaleItemSaved ==
    Answered("saleitem_save") /\ response.result = "done"

\* C21: saving an existing SaleItem whose quantity went from q_old to q_new
\* changes its product's stored stock by -(q_new - q_old), saving a new
\* SaleItem changes it by -quantity; no other product's stock changes.
C21_SaveAppliesDelta ==
    SaleItemSaved =>
        LET old == before.db.sales[request.sale].items
            product == IF request.pk # 0 THEN old[request.pk].product
                       ELSE request.product
            q_old == IF request.pk # 0 THEN old[request.pk].quantity ELSE 0
        IN \A p \in Products :
              stock_quantity[p] =
                  IF p = product
                  THEN before.db.stock_quantity[p] - (request.quantity - q_old)
                  ELSE before.db.stock_quantity[p]

\* an existing item has been saved with a smaller, non-zero quantity
C21_Witness ==
    /\ SaleItemSaved
    /\ request.pk # 0
    /\ request.quantity > 0
    /\ request.quantity < before.db.sales[request.sale].items[request.pk].quantity

\* C25: after successful POS sales of total quantity Q of a product from
\* initial stock S (here MaxStock) and no other stock operation, a further
\* sale request of one line for quantity q of it is accepted if and only if
\* 0 < q <= S - Q.
C25_AcceptedWithinRemainingStock ==
    /\ PosAnswered
    /\ Len(request.items) = 1
    /\ request.items[1].product_id \in Products
    /\ request.customer_id \in Customers \cup {NoCustomer}
    => LET p == request.items[1].product_id
           q == request.items[1].quantity
           Q == SoldQuantity(before.db.sales, p)
       IN PosSucceeded <=> (0 < q /\ q <= MaxStock - Q)

\* C27: while a product is inactive (disabled and not enabled again), no
\* POS sale request that contains it succeeds, and no sale takes from its
\* stock.
C27_InactiveNotSold ==
    PosAnswered =>
        \A p \in Products :
            ~before.db.is_active[p] =>
                /\ stock_quantity[p] = before.db.stock_quantity[p]
                /\ (\E i \in 1..Len(request.items) :
                       request.items[i].product_id = p) => ~PosSucceeded

\* C28: adding a SaleItem of quantity q through the sale admin's formset
\* changes its product's stock by -q, changing one from q_old to q_new by
\* -(q_new - q_old).
C28_FormsetAppliesDeltaOnce ==
    /\ Answered("admin_sale")
    /\ response.message = "was changed successfully"
    /\ request.deleted = 0
    /\ request.instances # <<>>
    => LET instance == request.instances[1]
           old == before.db.sales[request.sale].items
           product == IF instance.pk # 0 THEN old[instance.pk].product
                      ELSE instance.product
           q_old == IF instance.pk # 0 THEN old[instance.pk].quantity ELSE 0
       IN stock_quantity[product] =
              before.db.stock_quantity[product] - (instance.quantity - q_old)

\* C29: a create_user request by an owner with a valid account form and a
\* valid profile form commits the new account with exactly one
\* EmployeeProfile, which carries the role chosen in the profile form.
C29_CreateUserCommits ==
    /\ Answered("create_user")
    /\ request.method = "POST"
    /\ is_owner(request.user)
    /\ ~username_taken(before.db, request.username)
    => /\ Len(users) = Len(before.db.users) + 1
       /\ users[Len(users)].username = request.username
       /\ \E i \in 1..Len(profiles) :
             /\ profiles[i].user = Len(users)
             /\ profiles[i].role = request.role

\* C26: whatever the interleaving of the concurrent receive requests for an
\* order that was not Received when the first of them arrived, once the
\* order is Received each product's stock is what it was plus the order's
\* quantity of it, added once.
C26_ConcurrentReceiveAddsOnce ==
    \A w \in Workers :
        (/\ txn[w].pc # "idle"
         /\ before.db.po_status[txn[w].pk] # "Received"
         /\ po_status[txn[w].pk] = "Received")
        => \A p \in Products :
              stock_quantity[p] =
                  before.db.stock_quantity[p]
                  + OrderedQuantity(po_items[txn[w].pk], p)

\* a request that a redirect of the login page led to
ViaLogin ==
    /\ "chain" \in DOMAIN request
    /\ request.chain # <<>>
    /\ request.chain[Len(request.chain)] = "login"

\* C30: for every authenticated user the page CustomLoginView redirects to
\* admits the user (it is rendered, not redirected to the login page again),
\* so a chain of redirects has at most two hops: gate to login, login to
\* destination.
C30_LoginDestinationAdmits ==
    ("chain" \in DOMAIN request /\ request.user.is_authenticated)
    => /\ Len(request.chain) <= 2
       /\ (ViaLogin /\ response # NoResponse) => response.status = 200

\* C30 witness: a Stock Manager was turned away by the owner dashboard's
\* gate, was sent on by the login page and got the stock-manager dashboard.
C30_Witness ==
    /\ ViaLogin
    /\ request.chain = <<"owner_dashboard", "login">>
    /\ request.user = Employee("Stock Manager")
    /\ request.view = "stock_manager_dashboard"
    /\ response # NoResponse
    /\ response.status = 200

\* a report has been answered with a range
ReportViews == {"sales_report", "export_sales_csv", "expense_report"}

ReportAnswered ==
    /\ request # NoRequest
    /\ request.view \in ReportViews
    /\ response # NoResponse
    /\ response.status = 200

\* a report asked for with a period and no custom bound
PeriodAnswered(period) ==
    /\ ReportAnswered
    /\ request.period = period
    /\ request.start_date = NoText
    /\ request.end_date = NoText

\* the calendar month before that of d
PreviousMonth(d) ==
    IF d.month = 1 THEN [year |-> d.year - 1, month |-> 12]
    ELSE [year |-> d.year, month |-> d.month - 1]

\* C22: for period = last_month both resolvers give the first and the last
\* day of the calendar month before today's, December of the year before in
\* January and 29 February in a leap year; for today = 2024-03-15 the range
\* is [2024-02-01, 2024-02-29].
C22_LastMonthRange ==
    PeriodAnswered("last_month")
    => LET m == PreviousMonth(request.today)
       IN /\ response.start_date = date(m.year, m.month, 1)
          /\ response.end_date =
                 date(m.year, m.month,
                      IF m.month = 2
                      THEN (IF m.year % 4 = 0
                               /\ (m.year % 100 # 0 \/ m.year % 400 = 0)
                            THEN 29 ELSE 28)
                      ELSE IF m.month \in {4, 6, 9, 11} THEN 30 ELSE 31)
          /\ request.today = date(2024, 3, 15)
             => /\ response.start_date = date(2024, 2, 1)
                /\ response.end_date = date(2024, 2, 29)

\* C22 witness: the expense report of last month asked for on 2024-03-15.
C22_Witness ==
    /\ PeriodAnswered("last_month")
    /\ request.view = "expense_report"
    /\ request.today = date(2024, 3, 15)
    /\ response.end_date = date(2024, 2, 29)

\* C23: every report resolves today to [today, today], last_7_days to
\* [today-6, today], this_year to [1 January, today] and all_time to
\* [0001-01-01, today].
C23_NamedPeriods ==
    /\ PeriodAnswered("today")
       => response.start_date = request.today
          /\ response.end_date = request.today
    /\ PeriodAnswered("last_7_days")
       => response.start_date = date_sub_days(request.today, 6)
          /\ response.end_date = request.today
    /\ PeriodAnswered("this_year")
       => response.start_date = date(request.today.year, 1, 1)
          /\ response.end_date = request.today
    /\ PeriodAnswered("all_time")
       => response.start_date = date(1, 1, 1)
          /\ response.end_date = request.today

\* a custom bound was given and does not spell a day of the calendar
BadText(text) ==
    /\ text # NoText
    /\ ~(/\ text.year \in 1..9999
         /\ text.month \in 1..12
         /\ text.day \in 1..days_in_month(text.year, text.month))

\* the range a report has without parameters
DefaultRange ==
    IF request.view = "expense_report"
    THEN [start_date |-> date(request.today.year, request.today.month, 1),
          end_date |-> request.today]
    ELSE [start_date |-> date_sub_days(request.today, 29),
          end_date |-> request.today]

ReadsCustomBounds ==
    request.view = "expense_report" => request.period = "custom"

\* the range of the request's period alone
PeriodRange ==
    IF request.view = "expense_report"
    THEN DefaultRange
    ELSE sales_period_range(request.today,
                            IF request.period = "" THEN "last_30_days"
                            ELSE request.period)

====
